---------------------------- MODULE Spec2Model ----------------------------
(***************************************************************************)
(* Model of go-test-teamcity (src/main.go): the converter of `go test -v`  *)
(* output into TeamCity service messages.                                  *)
(*                                                                         *)
(* Strings are sequences of one-character strings, so that prefix tests,   *)
(* regular-expression matching, hierarchy stripping and escaping are       *)
(* computed the way the code computes them.  The output writer is the      *)
(* sequence of the writes made to it: one record per service message and   *)
(* one record per raw line of text.  Wall-clock time is a logical clock:   *)
(* the number of lines read so far.                                        *)
(***************************************************************************)
EXTENDS Integers, Sequences, FiniteSets, TLC

VARIABLES
    pc,                  \* "run": inside the read loop; "done": processReader returned
    lines,               \* the lines ReadString has returned so far (without error)
    partial,             \* the data ReadString returned together with its error (main.go:126)
    tests,               \* map[string]*Test: the pending records, keyed by name
    suites,              \* []string: the stack of open suites
    test,                \* *Test: the name of the current record, Nil when nil
    final,               \* the buffered summary lines
    prefix,              \* the indentation that marks a detail line
    out,                 \* the writes made to w, in order
    additionalTestName   \* the -name flag, after main has appended the space

vars == <<pc, lines, partial, tests, suites, test, final, prefix, out, additionalTestName>>

\* A nil pointer / nil submatch: the empty string is never a test name.
Nil == <<>>

-----------------------------------------------------------------------------
(* Character classes of the regular expressions *)

Lower == {"a","b","c","d","e","f","g","h","i","j","k","l","m",
          "n","o","p","q","r","s","t","u","v","w","x","y","z"}
Upper == {"A","B","C","D","E","F","G","H","I","J","K","L","M",
          "N","O","P","Q","R","S","T","U","V","W","X","Y","Z"}
Digit == {"0","1","2","3","4","5","6","7","8","9"}

\* \s of the regexp package: [\t\n\f\r ]
Space == {"\t", "\n", "\f", "\r", " "}

\* [a-zA-Z_]
IsNameStart(c) == c \in Lower \cup Upper \cup {"_"}

\* [\.\ds]
DurChar == Digit \cup {".", "s"}

-----------------------------------------------------------------------------
(* package strings *)

HasPrefix(s, p) == Len(p) <= Len(s) /\ SubSeq(s, 1, Len(p)) = p

\* a TrimPrefix that leaves the prefix in place
TrimPrefixKeep(s, p) == s

\* strings.HasPrefix(s, p) and strings.TrimPrefix(s, p)

TrimPrefix(s, p) == IF HasPrefix(s, p) THEN SubSeq(s, Len(p) + 1, Len(s)) ELSE s

\* 1-based index of the last occurrence of the character c in s, 0 when absent
\* (Go: strings.LastIndex, 0-based, -1 when absent)
LastIndex(s, c) ==
    LET I == {i \in 1..Len(s) : s[i] = c}
    IN  IF I = {} THEN 0 ELSE CHOOSE i \in I : \A k \in I : k <= i

\* strings.Replace(s, old, new, -1) for a one-character old
RECURSIVE Replace(_, _, _)
Replace(s, old, new) ==
    IF s = <<>> THEN <<>>
    ELSE (IF s[1] = old THEN new ELSE <<s[1]>>) \o Replace(Tail(s), old, new)

\* strings.Join(elems, sep)
RECURSIVE Join(_, _)
Join(elems, sep) ==
    IF elems = <<>> THEN <<>>
    ELSE IF Len(elems) = 1 THEN elems[1]
    ELSE elems[1] \o sep \o Join(Tail(elems), sep)

-----------------------------------------------------------------------------
(* escape, escapeLines, suite *)

\* escape with the replacement of the vertical bar made last: the bars that the
\* other replacements wrote are escaped again
escapePipeLast(s0) ==
    LET s2 == Replace(s0, "\n", <<"|", "n">>)
        s3 == Replace(s2, "\r", <<"|", "n">>)
        s4 == Replace(s3, "'", <<"|", "'">>)
        s5 == Replace(s4, "]", <<"|", "]">>)
        s6 == Replace(s5, "[", <<"|", "[">>)
    IN  Replace(s6, "|", <<"|", "|">>)

\* escape(s): the six replacements in the order of the code

escape(s0) ==
    LET s1 == Replace(s0, "|", <<"|", "|">>)
        s2 == Replace(s1, "\n", <<"|", "n">>)
        s3 == Replace(s2, "\r", <<"|", "n">>)
        s4 == Replace(s3, "'", <<"|", "'">>)
        s5 == Replace(s4, "]", <<"|", "]">>)
        s6 == Replace(s5, "[", <<"|", "[">>)
    IN  s6

escapeLines(ls) == escape(Join(ls, <<"\n">>))

suite(name) ==
    LET idx == LastIndex(name, "/")
    IN  IF idx # 0 THEN SubSeq(name, 1, idx - 1) ELSE <<>>

-----------------------------------------------------------------------------
(* Regular expressions.  A submatch result is Nil when the line does not   *)
(* match, and otherwise the sequence of the capture groups, so that group  *)
(* k of the code's result is element k.                                    *)

\* The end of a greedy [C]* (member = TRUE) or [^C]* (member = FALSE) started at
\* index i of s: the first index j >= i whose character is not matched,
\* Len(s)+1 when none.
SpanEnd(s, i, C, member) ==
    LET J == {j \in i..(Len(s) + 1) : j = Len(s) + 1 \/ (s[j] \in C) # member}
    IN  CHOOSE j \in J : \A k \in J : j <= k

\* the literal lit occurs in s at index i
MatchAt(s, i, lit) == i + Len(lit) - 1 <= Len(s) /\ SubSeq(s, i, i + Len(lit) - 1) = lit

litRun  == <<"=","=","="," ","R","U","N">>
litDash == <<"-","-","-"," ">>
litPASS == <<"P","A","S","S">>
litSKIP == <<"S","K","I","P">>
litFAIL == <<"F","A","I","L">>
litOk   == <<"o","k">>
litExit == <<"e","x","i","t"," ","s","t","a","t","u","s">>
litFound == <<"F","o","u","n","d">>
litRace == <<"W","A","R","N","I","N","G",":"," ","D","A","T","A"," ","R","A","C","E">>

\* ^=== RUN\s+([a-zA-Z_]\S*)
run(line) ==
    IF ~HasPrefix(line, litRun) THEN Nil
    ELSE LET a == Len(litRun) + 1
             b == SpanEnd(line, a, Space, TRUE)
             e == SpanEnd(line, b, Space, FALSE)
         IN  IF b = a \/ b > Len(line) \/ ~IsNameStart(line[b]) THEN Nil
             ELSE <<SubSeq(line, b, e - 1)>>

\* the end pattern without the leading (\s*): an indented end line does not match
endNoIndent(line) ==
    LET b  == 1 + Len(litDash)
        c  == b + 4
        d  == c + 1
        n  == SpanEnd(line, d, Space, TRUE)
        ne == SpanEnd(line, n, Space, FALSE)
        u  == ne + 2
        v  == IF u <= Len(line) /\ line[u] = "-" THEN u + 1 ELSE u
        ue == SpanEnd(line, v, DurChar, TRUE)
        st == SubSeq(line, b, c - 1)
    IN  IF /\ MatchAt(line, 1, litDash)
           /\ c <= Len(line)
           /\ st \in {litPASS, litSKIP, litFAIL}
           /\ line[c] = ":"
           /\ n > d
           /\ n <= Len(line)
           /\ IsNameStart(line[n])
           /\ MatchAt(line, ne, <<" ", "(">>)
           /\ ue > v
           /\ ue <= Len(line)
           /\ line[ue] = ")"
        THEN <<<<>>, st, SubSeq(line, n, ne - 1), SubSeq(line, u, ue - 1)>>
        ELSE Nil

\* ^(\s*)--- (PASS|SKIP|FAIL):\s+([a-zA-Z_]\S*) \((-?[\.\ds]+)\)
end(line) ==
    LET a  == SpanEnd(line, 1, Space, TRUE)            \* after the indentation
        b  == a + Len(litDash)                     \* the status keyword
        c  == b + 4                                \* the colon
        d  == c + 1                                \* \s+
        n  == SpanEnd(line, d, Space, TRUE)            \* the name
        ne == SpanEnd(line, n, Space, FALSE)           \* after the name
        u  == ne + 2                               \* the duration text
        v  == IF u <= Len(line) /\ line[u] = "-" THEN u + 1 ELSE u
        ue == SpanEnd(line, v, DurChar, TRUE)          \* after the duration text
        st == SubSeq(line, b, c - 1)
    IN  IF /\ MatchAt(line, a, litDash)
           /\ c <= Len(line)
           /\ st \in {litPASS, litSKIP, litFAIL}
           /\ line[c] = ":"
           /\ n > d
           /\ n <= Len(line)
           /\ IsNameStart(line[n])
           /\ MatchAt(line, ne, <<" ", "(">>)
           /\ ue > v
           /\ ue <= Len(line)
           /\ line[ue] = ")"
        THEN <<SubSeq(line, 1, a - 1), st, SubSeq(line, n, ne - 1), SubSeq(line, u, ue - 1)>>
        ELSE Nil

\* ^(ok|PASS|FAIL|exit status|Found)
pkg(line) ==
    IF HasPrefix(line, litOk) THEN <<litOk>>
    ELSE IF HasPrefix(line, litPASS) THEN <<litPASS>>
    ELSE IF HasPrefix(line, litFAIL) THEN <<litFAIL>>
    ELSE IF HasPrefix(line, litExit) THEN <<litExit>>
    ELSE IF HasPrefix(line, litFound) THEN <<litFound>>
    ELSE Nil

\* ^WARNING: DATA RACE  (MatchString)
race(line) == HasPrefix(line, litRace)

-----------------------------------------------------------------------------
(* time.ParseDuration on the texts the end pattern lets through            *)
(* (an optional '-', then digits, dots and the letter s), in nanoseconds.  *)
(* The result is <<d, ok>>; the code drops the error and keeps d, which    *)
(* is 0 on error.                                                          *)

Second == 1000000000
Millisecond == 1000000

\* the characters that start a number: a digit or the dot
NumChar == Digit \cup {"."}

DigitVal(c) == CHOOSE k \in 0..9 : <<"0","1","2","3","4","5","6","7","8","9">>[k + 1] = c

RECURSIVE IntVal(_)
IntVal(s) == IF s = <<>> THEN 0 ELSE 10 * IntVal(SubSeq(s, 1, Len(s) - 1)) + DigitVal(s[Len(s)])

RECURSIVE Pow10(_)
Pow10(k) == IF k = 0 THEN 1 ELSE 10 * Pow10(k - 1)

\* the loop over the "number unit" parts of the text, from index i
RECURSIVE parseParts(_, _, _)
parseParts(s, i, acc) ==
    IF i > Len(s) THEN <<acc, TRUE>>
    ELSE IF s[i] \notin NumChar THEN <<0, FALSE>>
    ELSE LET p    == SpanEnd(s, i, Digit, TRUE)
             pre  == p > i
             dot  == p <= Len(s) /\ s[p] = "."
             q0   == IF dot THEN p + 1 ELSE p
             q    == IF dot THEN SpanEnd(s, q0, Digit, TRUE) ELSE p
             post == q > q0
             ue   == SpanEnd(s, q, NumChar, FALSE)
             v    == IntVal(SubSeq(s, i, p - 1))
             f    == IntVal(SubSeq(s, q0, q - 1))
         IN  IF ~pre /\ ~post THEN <<0, FALSE>>                  \* no digits
             ELSE IF ue = q THEN <<0, FALSE>>                    \* missing unit
             ELSE IF SubSeq(s, q, ue - 1) # <<"s">> THEN <<0, FALSE>>    \* unknown unit
             ELSE parseParts(s, ue, acc + v * Second + f * (Second \div Pow10(q - q0)))

\* a ParseDuration that returns, together with the error, the digits it read
ParseDurationPartial(s0) ==
    LET neg == s0 # <<>> /\ s0[1] \in {"-", "+"}
        s   == IF neg THEN Tail(s0) ELSE s0
        r   == parseParts(s, 1, 0)
        IsDigit(c) == c \in Digit
    IN  IF s = <<"0">> THEN <<0, TRUE>>
        ELSE IF s = <<>> THEN <<0, FALSE>>
        ELSE IF ~r[2] THEN <<IntVal(SelectSeq(s, IsDigit)), FALSE>>
        ELSE IF neg /\ s0[1] = "-" THEN <<0 - r[1], TRUE>>
        ELSE r

\* time.ParseDuration(s0): <<the duration in nanoseconds, no error>>

ParseDuration(s0) ==
    LET neg == s0 # <<>> /\ s0[1] \in {"-", "+"}
        s   == IF neg THEN Tail(s0) ELSE s0
        r   == parseParts(s, 1, 0)
    IN  IF s = <<"0">> THEN <<0, TRUE>>
        ELSE IF s = <<>> THEN <<0, FALSE>>
        ELSE IF ~r[2] THEN <<0, FALSE>>
        ELSE IF neg /\ s0[1] = "-" THEN <<0 - r[1], TRUE>>
        ELSE r

\* Go's integer division truncates toward zero
DivTrunc(a, b) == IF a >= 0 THEN a \div b ELSE 0 - ((0 - a) \div b)

-----------------------------------------------------------------------------
(* The writes to w.  A service message is a record of its tag and          *)
(* attributes (absent attributes are Nil / ""); a raw line is a "text"     *)
(* record.  A string written by Fprint is written line by line.            *)

Msg(ev, name, timestamp, message, details, duration) ==
    [ev |-> ev, name |-> name, timestamp |-> timestamp, message |-> message,
     details |-> details, duration |-> duration, text |-> Nil]

Text(line) ==
    [ev |-> "text", name |-> Nil, timestamp |-> 0, message |-> "",
     details |-> Nil, duration |-> 0, text |-> line]

\* a Fprint that writes every line without its newline
FprintTrim(w, ls) == w \o [i \in 1..Len(ls) |-> Text(SubSeq(ls[i], 1, Len(ls[i]) - 1))]

\* fmt.Fprint(w, s) for a string s kept as the sequence of its lines
Fprint(w, ls) == w \o [i \in 1..Len(ls) |-> Text(ls[i])]

\* type Test struct, as newTest fills it (the zero value of the other fields)
Test(name, start) ==
    [Start |-> start, Name |-> name, Output |-> <<>>, Details |-> <<>>,
     Duration |-> 0, Status |-> Nil, Race |-> FALSE, Suite |-> FALSE]

\* outputTest that looks at the status before the race flag: a PASS with a race
\* is reported as passed
outputTestStatusFirst(w, t, now, addName) ==
    LET testName == escape(addName \o t.Name)
        w1 == Append(w, Msg("testStarted", testName, t.Start, "", Nil, 0))
        w2 == Fprint(w1, t.Output)
        failed(m) == Msg("testFailed", testName, now, m, escapeLines(t.Details), 0)
        w3 == IF t.Status = litFAIL THEN Append(w2, failed(""))
              ELSE IF t.Status = litPASS THEN w2
              ELSE IF t.Race THEN Append(w2, failed("Race detected!"))
              ELSE Append(w2, failed("Test ended in panic."))
    IN  IF t.Status = litSKIP
        THEN Append(w2, Msg("testIgnored", testName, now, "", Nil, 0))
        ELSE Append(w3, Msg("testFinished", testName, now, "", Nil,
                            DivTrunc(t.Duration, Millisecond)))

\* outputTest without the default case of the switch: a record without status is
\* reported as passed
outputTestNoDefault(w, t, now, addName) ==
    LET testName == escape(addName \o t.Name)
        w1 == Append(w, Msg("testStarted", testName, t.Start, "", Nil, 0))
        w2 == Fprint(w1, t.Output)
        failed(m) == Msg("testFailed", testName, now, m, escapeLines(t.Details), 0)
        w3 == IF t.Race THEN Append(w2, failed("Race detected!"))
              ELSE IF t.Status = litFAIL THEN Append(w2, failed(""))
              ELSE w2
    IN  IF t.Status = litSKIP
        THEN Append(w2, Msg("testIgnored", testName, now, "", Nil, 0))
        ELSE Append(w3, Msg("testFinished", testName, now, "", Nil,
                            DivTrunc(t.Duration, Millisecond)))

\* outputTest without the else: testFinished is written after testIgnored too
outputTestNoElse(w, t, now, addName) ==
    LET testName == escape(addName \o t.Name)
        w1 == Append(w, Msg("testStarted", testName, t.Start, "", Nil, 0))
        w2 == Fprint(w1, t.Output)
        failed(m) == Msg("testFailed", testName, now, m, escapeLines(t.Details), 0)
        w3 == IF t.Status = litSKIP
              THEN Append(w2, Msg("testIgnored", testName, now, "", Nil, 0))
              ELSE IF t.Race THEN Append(w2, failed("Race detected!"))
              ELSE IF t.Status = litFAIL THEN Append(w2, failed(""))
              ELSE IF t.Status = litPASS THEN w2
              ELSE Append(w2, failed("Test ended in panic."))
    IN  Append(w3, Msg("testFinished", testName, now, "", Nil,
                       DivTrunc(t.Duration, Millisecond)))

\* outputTest without fmt.Fprint(w, test.Output): the captured output is not written
outputTestNoOutput(w, t, now, addName) ==
    LET testName == escape(addName \o t.Name)
        w2 == Append(w, Msg("testStarted", testName, t.Start, "", Nil, 0))
        failed(m) == Msg("testFailed", testName, now, m, escapeLines(t.Details), 0)
        w3 == IF t.Race THEN Append(w2, failed("Race detected!"))
              ELSE IF t.Status = litFAIL THEN Append(w2, failed(""))
              ELSE IF t.Status = litPASS THEN w2
              ELSE Append(w2, failed("Test ended in panic."))
    IN  IF t.Status = litSKIP
        THEN Append(w2, Msg("testIgnored", testName, now, "", Nil, 0))
        ELSE Append(w3, Msg("testFinished", testName, now, "", Nil,
                            DivTrunc(t.Duration, Millisecond)))

\* outputTest(w, test) at time now, with the -name flag addName
outputTest(w, t, now, addName) ==
    LET testName == escape(addName \o t.Name)
        w1 == Append(w, Msg("testStarted", testName, t.Start, "", Nil, 0))
        w2 == Fprint(w1, t.Output)
        failed(m) == Msg("testFailed", testName, now, m, escapeLines(t.Details), 0)
        w3 == IF t.Race THEN Append(w2, failed("Race detected!"))
              ELSE IF t.Status = litFAIL THEN Append(w2, failed(""))
              ELSE IF t.Status = litPASS THEN w2
              ELSE Append(w2, failed("Test ended in panic."))
    IN  IF t.Status = litSKIP
        THEN Append(w2, Msg("testIgnored", testName, now, "", Nil, 0))
        ELSE Append(w3, Msg("testFinished", testName, now, "", Nil,
                            DivTrunc(t.Duration, Millisecond)))

startSuite(w, name) == Append(w, Msg("testSuiteStarted", escape(name), 0, "", Nil, 0))

finishSuite(w, name) == Append(w, Msg("testSuiteFinished", escape(name), 0, "", Nil, 0))

-----------------------------------------------------------------------------
(* The inputs: lines as `go test -v` prints them *)

TestA    == <<"T","e","s","t","A">>
TestASub == TestA \o <<"/","S","u","b">>
TestASubL == TestASub \o <<"/","L">>
TestB    == <<"T","e","s","t","B">>

RunLine(name) == litRun \o <<" "," "," ">> \o name \o <<"\n">>

EndLine(indent, status, name, dur) ==
    indent \o litDash \o status \o <<":"," ">> \o name \o <<" ","(">> \o dur \o <<")","\n">>

Indent4 == <<" "," "," "," ">>
Dur000 == <<"0",".","0","0","s">>
Dur001 == <<"0",".","0","1","s">>

SummaryLine == litPASS \o <<"\n">>
OkLine      == litOk \o <<" ","p","\n">>
RaceLine    == litRace \o <<"\n">>
DetailLine  == <<"\t","[","x","]","\n">>
OtherLine   == <<"o","u","t","\n">>

\* the lines of the general specification
Lines ==
    { RunLine(TestA), RunLine(TestASub), RunLine(TestB),
      EndLine(<<>>, litPASS, TestA, Dur001),
      EndLine(Indent4, litFAIL, TestASub, Dur000),
      EndLine(<<>>, litSKIP, TestB, Dur000),
      SummaryLine, OkLine, RaceLine, DetailLine, OtherLine }

\* the lines of the specification of nested suites
SuiteLines ==
    { RunLine(TestA), RunLine(TestASub), RunLine(TestASubL),
      EndLine(<<>>, litPASS, TestA, Dur001),
      EndLine(Indent4, litFAIL, TestASub, Dur000),
      EndLine(<<>>, litSKIP, TestB, Dur000) }

\* duration texts that the end pattern accepts: one and a half seconds, a
\* negative duration, and three that time.ParseDuration rejects (no unit, a
\* part without digits, no number)
Dur1500  == <<"1",".","5","s">>
DurNeg   == <<"-","0",".","0","1","s">>
DurBare  == <<"1","5">>
DurParts == <<"1","s",".","s">>
DurUnit  == <<"s">>

\* the lines of the specification of durations
DurLines ==
    { RunLine(TestA),
      EndLine(<<>>, litPASS, TestA, Dur1500),
      EndLine(<<>>, litFAIL, TestA, DurNeg),
      EndLine(<<>>, litPASS, TestA, DurBare),
      EndLine(<<>>, litFAIL, TestB, DurParts),
      EndLine(<<>>, litPASS, TestB, DurUnit),
      OtherLine }

\* a test whose name begins with the characters of TestA without being below it
TestAB == TestA \o <<"B">>

\* the lines of the specification of names that share a prefix
PrefixLines ==
    { RunLine(TestA), RunLine(TestASub),
      EndLine(<<>>, litPASS, TestA, Dur001),
      EndLine(<<>>, litPASS, TestAB, Dur001),
      SummaryLine }

\* the lines of the specification of the unterminated last line
FragLines ==
    { RunLine(TestA), EndLine(<<>>, litPASS, TestA, Dur001), SummaryLine, OtherLine }

\* what ReadString can return with its error: nothing, or the characters after
\* the last newline: here an end line, a start line, a summary line, a race
\* warning and a plain line, each without its newline
Fragments ==
    { Nil,
      litDash \o litPASS \o <<":"," ">> \o TestA \o <<" ","(">> \o Dur001 \o <<")">>,
      litRun \o <<" ">> \o TestB,
      litPASS,
      litRace,
      <<"o","u","t">> }

\* the values of the -name flag after main: unset, or "[p] "
Flags == { <<>>, <<"[","p","]"," ">> }

\* The submatches of every input line, computed once per line:
\* run.FindStringSubmatch(line), end.FindStringSubmatch(line), pkg.FindStringSubmatch(line)
AllLines == Lines \cup SuiteLines \cup DurLines \cup PrefixLines \cup FragLines

runTable == [l \in AllLines |-> run(l)]

endTable == [l \in AllLines |-> end(l)]

pkgTable == [l \in AllLines |-> pkg(l)]

-----------------------------------------------------------------------------
(* processReader *)

\* delete(tests, name)
Delete(m, name) == [n \in DOMAIN m \ {name} |-> m[n]]

\* the loop of newTest over the ancestors n of a name
RECURSIVE markSuites(_, _)
markSuites(m, n) ==
    IF n = <<>> THEN m
    ELSE markSuites(IF n \in DOMAIN m THEN [m EXCEPT ![n].Suite = TRUE] ELSE m, suite(n))

\* newTest without the loop over the ancestors: no pending record becomes a
\* suite parent
newTestNoMark(m, name, now) == (name :> Test(name, now)) @@ m

\* newTest(name) at time now: the map afterwards (the record is m[name])
newTest(m, name, now) == markSuites((name :> Test(name, now)) @@ m, suite(name))

\* the closing loop that shortens the stack without writing testSuiteFinished
RECURSIVE closeSuitesSilent(_, _, _, _)
closeSuitesSilent(ss, w, name, j) ==
    IF j < 1 THEN <<ss, w>>
    ELSE IF ~HasPrefix(name, ss[j])
         THEN closeSuitesSilent(SubSeq(ss, 1, j - 1), w, name, j - 1)
         ELSE closeSuitesSilent(ss, w, name, j - 1)

\* no closing loop at all: finalizing never closes a suite
closeSuitesNone(ss, w, name, j) == <<ss, w>>

\* the loop that closes suites, from index j down: <<suites, w>> afterwards
RECURSIVE closeSuites(_, _, _, _)
closeSuites(ss, w, name, j) ==
    IF j < 1 THEN <<ss, w>>
    ELSE IF ~HasPrefix(name, ss[j])
         THEN closeSuites(SubSeq(ss, 1, j - 1), finishSuite(w, ss[j]), name, j - 1)
         ELSE closeSuites(ss, w, name, j - 1)

\* a finalizing block that a start line does not enter: only end lines and
\* summary lines finalize the current record
BoundaryNoRun(line) ==
    /\ test # Nil
    /\ tests[test].Status # Nil
    /\ (endTable[line] # Nil \/ pkgTable[line] # Nil)

\* the condition of the finalizing block of the loop body
Boundary(line) ==
    /\ test # Nil
    /\ tests[test].Status # Nil
    /\ (runTable[line] # Nil \/ endTable[line] # Nil \/ pkgTable[line] # Nil)

\* a finalizing block without the delete: the emitted record stays in the map
FinalizeNoDelete(line, now) ==
    IF Boundary(line)
    THEN LET t  == tests[test]
             cl == closeSuites(suites, out, t.Name, Len(suites))
             ss == IF t.Suite THEN Append(cl[1], t.Name) ELSE cl[1]
             w  == IF t.Suite THEN startSuite(cl[2], t.Name) ELSE cl[2]
         IN  [tests |-> tests, suites |-> ss, test |-> Nil,
              out |-> outputTest(w, t, now, additionalTestName)]
    ELSE [tests |-> tests, suites |-> suites, test |-> test, out |-> out]

\* the finalizing block of the loop body: the state after it
Finalize(line, now) ==
    IF Boundary(line)
    THEN LET t  == tests[test]
             cl == closeSuites(suites, out, t.Name, Len(suites))
             ss == IF t.Suite THEN Append(cl[1], t.Name) ELSE cl[1]
             w  == IF t.Suite THEN startSuite(cl[2], t.Name) ELSE cl[2]
         IN  [tests |-> Delete(tests, t.Name), suites |-> ss, test |-> Nil,
              out |-> outputTest(w, t, now, additionalTestName)]
    ELSE [tests |-> tests, suites |-> suites, test |-> test, out |-> out]

\* one iteration of the loop on a line read without error
Process(line) ==
    LET now    == Len(lines) + 1
        runOut == runTable[line]
        endOut == endTable[line]
        pkgOut == pkgTable[line]
        f      == Finalize(line, now)
    IN  /\ suites' = f.suites
        /\ IF runOut # Nil THEN
               /\ tests' = newTest(f.tests, runOut[1], now)
               /\ test' = runOut[1]
               /\ UNCHANGED <<final, prefix>>
               /\ out' = f.out
           ELSE IF endOut # Nil THEN
               LET m == IF endOut[3] \in DOMAIN f.tests THEN f.tests
                        ELSE newTest(f.tests, endOut[3], now)
               IN  /\ test' = endOut[3]
                   /\ prefix' = endOut[1] \o <<"\t">>
                   /\ tests' = [m EXCEPT ![endOut[3]].Status = endOut[2],
                                         ![endOut[3]].Duration = ParseDuration(endOut[4])[1]]
                   /\ UNCHANGED final
                   /\ out' = f.out
           ELSE IF pkgOut # Nil THEN
               /\ final' = Append(final, line)
               /\ tests' = f.tests
               /\ test' = f.test
               /\ UNCHANGED prefix
               /\ out' = f.out
           ELSE IF f.test # Nil /\ race(line) THEN
               /\ tests' = [f.tests EXCEPT ![f.test].Race = TRUE]
               /\ test' = f.test
               /\ UNCHANGED <<final, prefix>>
               /\ out' = f.out
           ELSE IF f.test # Nil /\ f.tests[f.test].Status # Nil /\ HasPrefix(line, prefix) THEN
               /\ tests' = [f.tests EXCEPT ![f.test].Details =
                               Append(@, TrimPrefix(SubSeq(line, 1, Len(line) - 1), prefix))]
               /\ test' = f.test
               /\ UNCHANGED <<final, prefix>>
               /\ out' = f.out
           ELSE IF f.test # Nil THEN
               /\ tests' = [f.tests EXCEPT ![f.test].Output = Append(@, line)]
               /\ test' = f.test
               /\ UNCHANGED <<final, prefix>>
               /\ out' = f.out
           ELSE
               /\ out' = Fprint(f.out, <<line>>)
               /\ tests' = f.tests
               /\ test' = f.test
               /\ UNCHANGED <<final, prefix>>

\* the writes of `for _, t := range tests { outputTest(w, t) }` in the order ord
RECURSIVE rangeTests(_, _, _, _, _)
rangeTests(w, m, ord, now, addName) ==
    IF ord = <<>> THEN w
    ELSE rangeTests(outputTest(w, m[ord[1]], now, addName), m, Tail(ord), now, addName)

\* the orders in which a range over the map m can visit its keys
Orders(m) ==
    {ord \in [1..Cardinality(DOMAIN m) -> DOMAIN m] :
        \A i, j \in DOMAIN ord : i # j => ord[i] # ord[j]}

\* `for j := len(suites) - 1; j >= 0; j-- { finishSuite(w, suites[j]) }`
RECURSIVE finishSuites(_, _, _)
finishSuites(w, ss, j) == IF j < 1 THEN w ELSE finishSuites(finishSuite(w, ss[j]), ss, j - 1)

\* Flush without the final range over the map: the leftover records are dropped
FlushNoLeftovers(ord) ==
    LET now == Len(lines) + 1
        w1 == IF test # Nil THEN outputTest(out, tests[test], now, additionalTestName) ELSE out
        m  == IF test # Nil THEN Delete(tests, test) ELSE tests
        w2 == finishSuites(w1, suites, Len(suites))
    IN  [tests |-> m, out |-> Fprint(w2, final)]

\* Flush without `delete(tests, test.Name)`: the range visits the current record again
FlushNoDelete(ord) ==
    LET now == Len(lines) + 1
        w1 == IF test # Nil THEN outputTest(out, tests[test], now, additionalTestName) ELSE out
        w2 == finishSuites(w1, suites, Len(suites))
        w3 == rangeTests(w2, tests, ord, now, additionalTestName)
        w4 == IF test # Nil THEN outputTest(w3, tests[test], now, additionalTestName) ELSE w3
    IN  [tests |-> tests, out |-> Fprint(w4, final)]

\* Flush that writes the summary before the leftover records
FlushFinalEarly(ord) ==
    LET now == Len(lines) + 1
        w1 == IF test # Nil THEN outputTest(out, tests[test], now, additionalTestName) ELSE out
        m  == IF test # Nil THEN Delete(tests, test) ELSE tests
        w2 == finishSuites(w1, suites, Len(suites))
        w3 == Fprint(w2, final)
    IN  [tests |-> m, out |-> rangeTests(w3, m, ord, now, additionalTestName)]

\* the code after the loop, with the map ranged over in the order ord
Flush(ord) ==
    LET now == Len(lines) + 1
        w1 == IF test # Nil THEN outputTest(out, tests[test], now, additionalTestName) ELSE out
        m  == IF test # Nil THEN Delete(tests, test) ELSE tests
        w2 == finishSuites(w1, suites, Len(suites))
        w3 == rangeTests(w2, m, ord, now, additionalTestName)
    IN  [tests |-> m, out |-> Fprint(w3, final)]

\* if err != nil { break } applied to a trailing fragment that is textually an
\* end line of the current test before the rest of processReader runs
BreakClassifies(frag, ord) ==
    LET now == Len(lines) + 1
        e  == end(frag)
        t0 == IF test # Nil /\ e # Nil /\ e[3] = test
              THEN [tests[test] EXCEPT !.Status = e[2]]
              ELSE IF test # Nil THEN tests[test] ELSE Nil
        w1 == IF test # Nil THEN outputTest(out, t0, now, additionalTestName) ELSE out
        m  == IF test # Nil THEN Delete(tests, test) ELSE tests
        w2 == finishSuites(w1, suites, Len(suites))
        w3 == rangeTests(w2, m, ord, now, additionalTestName)
    IN  [tests |-> m, out |-> Fprint(w3, final)]

\* line, err := r.ReadString('\n'); if err != nil { break }: the data returned
\* with the error is not looked at, the statements after the loop follow
Break(frag, ord) == Flush(ord)

-----------------------------------------------------------------------------
(* Bounds *)

MaxLines == 4
MaxSuiteLines == 6
MaxDurLines == 3
MaxStrLen == 3
MaxPrefixLines == 5
MaxFragLines == 3

-----------------------------------------------------------------------------
(* The state machine *)

EmptyMap == [n \in {} |-> Nil]

Init ==
    /\ pc = "run"
    /\ lines = <<>>
    /\ partial = Nil
    /\ tests = EmptyMap
    /\ suites = <<>>
    /\ test = Nil
    /\ final = <<>>
    /\ prefix = <<"\t">>
    /\ out = <<>>
    /\ additionalTestName = <<>>

\* ReadString returns a line and no error: one iteration of the loop
ReadLine(L, max) ==
    /\ pc = "run"
    /\ Len(lines) < max
    /\ \E line \in L :
         /\ Process(line)
         /\ lines' = Append(lines, line)
    /\ UNCHANGED <<pc, partial, additionalTestName>>

\* ReadString returns an error together with the data frag it read before the
\* end of the input (no newline in it): the loop ends and the rest of
\* processReader runs
ReadError(F) ==
    /\ pc = "run"
    /\ \E frag \in F :
         /\ partial' = frag
         /\ \E ord \in Orders(IF test # Nil THEN Delete(tests, test) ELSE tests) :
              LET f == Break(frag, ord)
              IN  /\ tests' = f.tests
                  /\ out' = f.out
    /\ pc' = "done"
    /\ UNCHANGED <<lines, suites, test, final, prefix, additionalTestName>>

\* the input ends after a newline: ReadString returns no data with the error
ReadEOF == ReadError({Nil})

Read == ReadLine(Lines, MaxLines)

ReadSuites == ReadLine(SuiteLines, MaxSuiteLines)

Next == Read \/ ReadEOF

NextSuites == ReadSuites \/ ReadEOF

Spec == Init /\ [][Next]_vars

SpecSuites == Init /\ [][NextSuites]_vars

\* the loop on end lines with well-formed and malformed duration texts
ReadDur == ReadLine(DurLines, MaxDurLines)

NextDur == ReadDur \/ ReadEOF

SpecDur == Init /\ [][NextDur]_vars

\* the loop on tests whose names share a prefix
ReadPrefix == ReadLine(PrefixLines, MaxPrefixLines)

NextPrefix == ReadPrefix \/ ReadEOF

SpecPrefix == Init /\ [][NextPrefix]_vars

\* the loop on an input whose last line has no newline
ReadFrag == ReadLine(FragLines, MaxFragLines)

ReadFragment == ReadError(Fragments)

NextFrag == ReadFrag \/ ReadFragment

SpecFrag == Init /\ [][NextFrag]_vars

-----------------------------------------------------------------------------
(* outputTest on its own: a record is drawn, outputTest writes it *)

TestRecords ==
    [Start : {1}, Name : {TestA, TestASub}, Output : {<<>>, <<OtherLine>>},
     Details : {<<>>, <<<<"[","x","]">>, <<"y">>>>}, Duration : {0, 10 * Millisecond},
     Status : {Nil, litPASS, litFAIL, litSKIP}, Race : BOOLEAN, Suite : BOOLEAN]

InitOutput ==
    /\ pc = "emit"
    /\ lines = <<>>
    /\ partial = Nil
    /\ \E t \in TestRecords :
         /\ tests = (t.Name :> t)
         /\ test = t.Name
    /\ suites = <<>>
    /\ final = <<>>
    /\ prefix = <<"\t">>
    /\ out = <<>>
    /\ additionalTestName \in Flags

EmitTest ==
    /\ pc = "emit"
    /\ out' = outputTest(out, tests[test], 2, additionalTestName)
    /\ pc' = "emitted"
    /\ UNCHANGED <<lines, partial, tests, suites, test, final, prefix, additionalTestName>>

NextOutput == EmitTest

SpecOutput == InitOutput /\ [][NextOutput]_vars

-----------------------------------------------------------------------------
(* escape on its own: a string is drawn, startSuite writes its escaped form *)

\* the characters that escape replaces (without the carriage return) and two
\* that it leaves alone, one of them the letter of the newline's escape
Alphabet == {"|", "\n", "'", "[", "]", "n", "a"}

Strings == UNION {[1..k -> Alphabet] : k \in 0..MaxStrLen}

InitEscape ==
    /\ pc = "escape"
    /\ lines = <<>>
    /\ partial = Nil
    /\ tests = EmptyMap
    /\ suites = <<>>
    /\ test \in Strings
    /\ final = <<>>
    /\ prefix = <<"\t">>
    /\ out = <<>>
    /\ additionalTestName = <<>>

EscapeName ==
    /\ pc = "escape"
    /\ out' = startSuite(out, test)
    /\ pc' = "escaped"
    /\ UNCHANGED <<lines, partial, tests, suites, test, final, prefix, additionalTestName>>

NextEscape == EscapeName

SpecEscape == InitEscape /\ [][NextEscape]_vars

-----------------------------------------------------------------------------
(* Vocabulary of the properties *)

Names == {TestA, TestASub, TestASubL, TestB}

\* the name attributes outputTest writes for the test names, computed once
EscapedNames == [f \in Flags |-> [n \in Names |-> escape(f \o n)]]

\* the name attribute outputTest writes for the test name n
TestName(n) ==
    IF n \in Names /\ additionalTestName \in Flags
    THEN EscapedNames[additionalTestName][n]
    ELSE escape(additionalTestName \o n)

\* the positions in the output of the testStarted messages of the name n
StartedIn(w, n) ==
    LET tn == TestName(n)
    IN  {i \in 1..Len(w) : w[i].ev = "testStarted" /\ w[i].name = tn}

Started(n) == StartedIn(out, n)

\* the numbers of start lines and of end lines of the name n read so far
RunCount(n) == Cardinality({i \in 1..Len(lines) : runTable[lines[i]] = <<n>>})

EndCount(n) ==
    Cardinality({i \in 1..Len(lines) : endTable[lines[i]] # Nil /\ endTable[lines[i]][3] = n})

\* the position of the first message after position i that is not raw text
NextMsg(i) ==
    LET J == {j \in (i + 1)..(Len(out) + 1) : j = Len(out) + 1 \/ out[j].ev # "text"}
    IN  CHOOSE j \in J : \A k \in J : j <= k

\* the message at position i exists, has the tag ev and the name of the message at s
Is(i, ev, s) == i <= Len(out) /\ out[i].ev = ev /\ out[i].name = out[s].name

\* the test event group that starts at position i is complete: testStarted, raw
\* text, then testIgnored, or an optional testFailed and testFinished
GroupOK(i) ==
    LET j == NextMsg(i)
    IN  \/ Is(j, "testIgnored", i)
        \/ Is(j, "testFinished", i)
        \/ Is(j, "testFailed", i) /\ Is(j + 1, "testFinished", i)

\* the group that starts at i reports the test as passed / as failed by a race
GroupPassed(i) == Is(NextMsg(i), "testFinished", i)

GroupRace(i) ==
    LET j == NextMsg(i)
    IN  Is(j, "testFailed", i) /\ out[j].message = "Race detected!" /\ Is(j + 1, "testFinished", i)

-----------------------------------------------------------------------------
(* C1 *)

\* C1 as stated: when processReader has returned, every start line has a test
\* event group of its own in the output: a name has at least as many groups as
\* start lines.
C1_GroupPerStartLine ==
    pc = "done" => \A n \in Names : Cardinality(Started(n)) >= RunCount(n)

\* C1 amended: when processReader has returned, every name that had a start line
\* has at least one test event group in the output, also when no end line of
\* that name was read, and every group in the output is complete (testStarted,
\* then testIgnored, or an optional testFailed and testFinished).  Start lines
\* that repeat the name of a record still pending share one group.
C1_StartedNamesAreEmitted ==
    pc = "done" =>
        /\ \A n \in Names : RunCount(n) > 0 => Started(n) # {}
        /\ \A i \in 1..Len(out) : out[i].ev = "testStarted" => GroupOK(i)

\* C1 witness: a name started twice and never ended has exactly one group.
C1_Witness ==
    /\ pc = "done"
    /\ \E n \in Names : RunCount(n) = 2 /\ EndCount(n) = 0 /\ Cardinality(Started(n)) = 1

-----------------------------------------------------------------------------
(* C2 *)

-----------------------------------------------------------------------------
(* C3 *)

\* The suite messages of the output from position i on, read against the stack
\* st of open suites: <<FALSE, _>> when a testSuiteFinished does not name the
\* suite opened last, else <<TRUE, the suites left open>>.
RECURSIVE SuiteWalk(_, _)
SuiteWalk(i, st) ==
    IF i > Len(out) THEN <<TRUE, st>>
    ELSE IF out[i].ev = "testSuiteStarted" THEN SuiteWalk(i + 1, Append(st, out[i].name))
    ELSE IF out[i].ev = "testSuiteFinished"
         THEN IF st # <<>> /\ st[Len(st)] = out[i].name
              THEN SuiteWalk(i + 1, SubSeq(st, 1, Len(st) - 1))
              ELSE <<FALSE, st>>
    ELSE SuiteWalk(i + 1, st)

EscapedSuites == [j \in 1..Len(suites) |-> escape(suites[j])]

\* C3: every testSuiteFinished in the output names the suite that was opened
\* last and is still open (LIFO); while the loop runs the suites opened and not
\* yet finished are exactly the suite stack, bottom to top (no suite leaves the
\* stack without its testSuiteFinished); and when processReader has returned no
\* suite is left open.
C3_SuiteBalance ==
    LET r == SuiteWalk(1, <<>>)
    IN  /\ r[1]
        /\ pc = "run" => r[2] = EscapedSuites
        /\ pc = "done" => r[2] = <<>>

\* C3 witness: the flush has closed two nested suites.
C3_Witness == pc = "done" /\ Len(suites) = 2 /\ suites[1] # suites[2]

-----------------------------------------------------------------------------
(* C4 *)

\* the position of the first testStarted in the writes w, Len(w)+1 when none
FirstStarted(w) ==
    LET J == {j \in 1..(Len(w) + 1) : j = Len(w) + 1 \/ w[j].ev = "testStarted"}
    IN  CHOOSE j \in J : \A k \in J : j <= k

\* the writes w close the suite s / open the suite s before position k
ClosesBefore(w, k, s) ==
    \E i \in 1..(k - 1) : w[i].ev = "testSuiteFinished" /\ w[i].name = escape(s)

OpensBefore(w, k, s) ==
    \E i \in 1..(k - 1) : w[i].ev = "testSuiteStarted" /\ w[i].name = escape(s)

\* what the step wrote
Written(w, w2) == SubSeq(w2, Len(w) + 1, Len(w2))

\* C4 as stated: when the input ends with a current record, the flush finalizes
\* it as a boundary does: before its testStarted it closes every suite on the
\* stack that is not a prefix of its name, and opens the suite of its name when
\* the record is a suite parent.
C4_FlushFinalizesCurrent ==
    [][(pc = "run" /\ pc' = "done" /\ test # Nil) =>
          LET w == Written(out, out')
              k == FirstStarted(w)
          IN  /\ \A j \in 1..Len(suites) :
                    ~HasPrefix(test, suites[j]) => ClosesBefore(w, k, suites[j])
              /\ tests[test].Suite => OpensBefore(w, k, test)]_vars

-----------------------------------------------------------------------------
(* C5 *)

Scenario == <<RunLine(TestASub), EndLine(Indent4, litFAIL, TestASub, Dur000)>>

\* the message at position i has the tag ev and the name of the test n
At(i, ev, n) == out[i].ev = ev /\ out[i].name = TestName(n)

\* C5 as stated: after the scenario the output has, in this order,
\* testSuiteStarted(TestA), testStarted(TestA/Sub), testFailed(TestA/Sub),
\* testFinished(TestA/Sub), testSuiteFinished(TestA), and a testFailed and
\* testFinished for TestA that report the abnormal end.
C5_ScenarioWithSuite ==
    (pc = "done" /\ lines = Scenario) =>
        /\ \E i1, i2, i3, i4, i5 \in 1..Len(out) :
              /\ i1 < i2 /\ i2 < i3 /\ i3 < i4 /\ i4 < i5
              /\ out[i1].ev = "testSuiteStarted" /\ out[i1].name = escape(TestA)
              /\ At(i2, "testStarted", TestASub)
              /\ At(i3, "testFailed", TestASub)
              /\ At(i4, "testFinished", TestASub)
              /\ out[i5].ev = "testSuiteFinished" /\ out[i5].name = escape(TestA)
        /\ \E i \in 1..(Len(out) - 1) :
              /\ At(i, "testFailed", TestA)
              /\ out[i].message = "Test ended in panic."
              /\ At(i + 1, "testFinished", TestA)

\* C5 amended: after the scenario the output is exactly testStarted(TestA/Sub),
\* testFailed(TestA/Sub) without message, testFinished(TestA/Sub): no record of
\* TestA was ever created, so there is no suite message and no event of TestA.
C5_ScenarioOutput ==
    (pc = "done" /\ lines = Scenario) =>
        out = << Msg("testStarted", TestName(TestASub), 1, "", Nil, 0),
                 Msg("testFailed", TestName(TestASub), 3, "", <<>>, 0),
                 Msg("testFinished", TestName(TestASub), 3, "", Nil, 0) >>

\* C5 witness: the scenario has been processed to the end.
C5_Witness == pc = "done" /\ lines = Scenario /\ out # <<>>

-----------------------------------------------------------------------------
(* C6 *)

\* the name n has one start line and one end line
OnceStartedAndEnded(n) == RunCount(n) = 1 /\ EndCount(n) = 1

\* i is the position of a start line of n, k that of a PASS end line of n, and
\* j that of a race warning between the two
RaceBetween(n, i, j, k) ==
    /\ i < j
    /\ j < k
    /\ race(lines[j])
    /\ runTable[lines[i]] = <<n>>
    /\ endTable[lines[k]] # Nil
    /\ endTable[lines[k]][3] = n
    /\ endTable[lines[k]][2] = litPASS

\* no start or end line lies strictly between the positions i and j
NoTestLineBetween(i, j) ==
    \A m \in (i + 1)..(j - 1) : runTable[lines[m]] = Nil /\ endTable[lines[m]] = Nil

\* the test n is reported as failed by a race, and never as passed
ReportedAsRace(n) ==
    /\ \E s \in Started(n) : GroupRace(s)
    /\ \A s \in Started(n) : ~GroupPassed(s)

\* C6 as stated: for a test that is started and ended once, a race warning
\* between its start line and its PASS end line makes the test reported as
\* failed by a race and never as passed, whatever lies between the start line
\* and the warning.
C6_RaceBetweenStartAndPass ==
    pc = "done" =>
        \A n \in Names : OnceStartedAndEnded(n) =>
            \A i, j, k \in 1..Len(lines) :
                RaceBetween(n, i, j, k) => ReportedAsRace(n)

\* C6 amended: a race warning marks the record that is current when it is read.
\* For a test that is started and ended once, a warning between its start line
\* and its PASS end line makes the test reported as failed by a race (testFailed with the message
\* 'Race detected!', then testFinished) and never as passed, provided no start
\* or end line lies between the start line and the warning.
C6_RaceOfCurrent ==
    pc = "done" =>
        \A n \in Names : OnceStartedAndEnded(n) =>
            \A i, j, k \in 1..Len(lines) :
                (RaceBetween(n, i, j, k) /\ NoTestLineBetween(i, j)) => ReportedAsRace(n)

\* C6 witness: TestA starts, the warning follows, another test starts, TestA
\* passes.
C6_Witness ==
    /\ pc = "done"
    /\ RunCount(TestB) = 1
    /\ OnceStartedAndEnded(TestA)
    /\ \E i, j, k \in 1..Len(lines) :
          RaceBetween(TestA, i, j, k) /\ NoTestLineBetween(i, j) /\ ~NoTestLineBetween(j, k)

-----------------------------------------------------------------------------
(* C7, C8: outputTest on its own (SpecOutput) *)

\* the record outputTest was given
Given == tests[test]

\* the positions of the messages with the tag ev
Tagged(ev) == {i \in 1..Len(out) : out[i].ev = ev}

\* C7 as stated: the group has a testFailed exactly when the status is FAIL, the
\* race flag is set or the status is unset, for every status and race flag, and
\* with the race flag set the message is the race message.
C7_FailedIffFailRaceUnset ==
    pc = "emitted" =>
        /\ Tagged("testFailed") # {} <=>
              (Given.Status = litFAIL \/ Given.Race \/ Given.Status = Nil)
        /\ Given.Race => \A i \in Tagged("testFailed") : out[i].message = "Race detected!"

\* C7 amended: the group has a testFailed exactly when the status is not SKIP
\* and the status is FAIL, the race flag is set or the status is unset (a SKIP
\* record is written as ignored even with the race flag set).  There is at most
\* one testFailed; its message is the race message when the race flag is set,
\* absent for FAIL without race, and the panic message for an unset status.
C7_FailedUnlessSkipped ==
    pc = "emitted" =>
        /\ Tagged("testFailed") # {} <=>
              /\ Given.Status # litSKIP
              /\ (Given.Status = litFAIL \/ Given.Race \/ Given.Status = Nil)
        /\ Cardinality(Tagged("testFailed")) <= 1
        /\ \A i \in Tagged("testFailed") :
              /\ out[i].message = IF Given.Race THEN "Race detected!"
                                  ELSE IF Given.Status = litFAIL THEN ""
                                  ELSE "Test ended in panic."
              /\ out[i].details = escapeLines(Given.Details)

\* C7 witness: a SKIP record with the race flag has been written without
\* testFailed.
C7_Witness ==
    /\ pc = "emitted"
    /\ Given.Status = litSKIP
    /\ Given.Race
    /\ Tagged("testFailed") = {}

\* C8: a SKIP record is written as testStarted, its captured output, testIgnored
\* and nothing else, so without testFinished; any other record is written with
\* exactly one testFinished, as the last message of its group, and without
\* testIgnored.
C8_SkipSuppressesFinish ==
    pc = "emitted" =>
        /\ Tagged("testStarted") = {1}
        /\ IF Given.Status = litSKIP
           THEN /\ Tagged("testIgnored") = {Len(out)}
                /\ NextMsg(1) = Len(out)
                /\ Tagged("testFinished") = {}
           ELSE /\ Tagged("testFinished") = {Len(out)}
                /\ Tagged("testIgnored") = {}
                /\ NextMsg(1) >= Len(out) - 1

\* C8 witness: a SKIP record with captured output and details has been written.
C8_Witness ==
    /\ pc = "emitted"
    /\ Given.Status = litSKIP
    /\ Given.Output # <<>>
    /\ Given.Details # <<>>
    /\ out[Len(out)].ev = "testIgnored"

-----------------------------------------------------------------------------
(* C9 *)

\* the position of the last testStarted in the output, 0 when none
LastStarted ==
    LET J == Tagged("testStarted") \cup {0}
    IN  CHOOSE j \in J : \A k \in J : k <= j

\* every suite on the stack has a testSuiteFinished in the output, and as many
\* suites were finished as were started
AllClosed ==
    /\ \A j \in 1..Len(suites) :
          \E i \in Tagged("testSuiteFinished") : out[i].name = escape(suites[j])
    /\ Cardinality(Tagged("testSuiteFinished")) = Cardinality(Tagged("testSuiteStarted"))

\* C9 as stated: while a current record exists every entry of the suite stack
\* is a prefix of its name, and after the flush every suite of the stack is
\* closed.
C9_StackPrefixOfCurrent ==
    /\ (pc = "run" /\ test # Nil) => \A j \in 1..Len(suites) : HasPrefix(test, suites[j])
    /\ pc = "done" => AllClosed

\* C9 amended: while the loop runs every entry of the suite stack is a prefix of
\* the name of the record finalized last (the one written last), not of the
\* current record: the suites that are no prefix of the current record stay on
\* the stack until that record is finalized.  After the flush every suite of
\* the stack is closed.
C9_StackPrefixOfFinalized ==
    /\ (pc = "run" /\ LastStarted # 0) =>
          \A j \in 1..Len(suites) : HasPrefix(out[LastStarted].name, TestName(suites[j]))
    /\ (pc = "run" /\ LastStarted = 0) => suites = <<>>
    /\ pc = "done" => AllClosed

\* C9 witness: the loop runs with two suites on the stack and a current record
\* of which they are no prefix.
C9_Witness ==
    /\ pc = "run"
    /\ Len(suites) = 2
    /\ test # Nil
    /\ \A j \in 1..Len(suites) : ~HasPrefix(test, suites[j])

-----------------------------------------------------------------------------
(* C10 *)

IsSummary(line) == pkgTable[line] # Nil

\* the summary lines read so far, in input order
Summaries == SelectSeq(lines, IsSummary)

\* the write at position i is raw text that the summary pattern matches
SummaryText(i) == out[i].ev = "text" /\ pkg(out[i].text) # Nil

\* C10: while the loop runs no summary line is in the output and the buffer
\* holds the summary lines read so far, in input order; when processReader has
\* returned, the output ends with exactly these lines, verbatim and in input
\* order, and nothing before them is a summary line.
C10_SummaryLast ==
    LET k == Len(out) - Len(Summaries)
    IN  /\ final = Summaries
        /\ pc = "run" => \A i \in 1..Len(out) : ~SummaryText(i)
        /\ pc = "done" =>
              /\ k >= 0
              /\ \A i \in 1..Len(Summaries) : out[k + i] = Text(Summaries[i])
              /\ \A i \in 1..k : ~SummaryText(i)

\* C10 witness: two different summary lines were read, the first before a test
\* that is left pending at the end, and the output ends with them.
C10_Witness ==
    /\ pc = "done"
    /\ Len(Summaries) = 2
    /\ Summaries[1] # Summaries[2]
    /\ IsSummary(lines[1])
    /\ ~IsSummary(lines[Len(lines)])
    /\ Cardinality(DOMAIN tests) >= 1
    /\ out[Len(out)] = Text(Summaries[2])

-----------------------------------------------------------------------------
(* C11 *)

IsEnd(l) == endTable[l] # Nil

IsStarted(m) == m.ev = "testStarted"

\* the names of the end lines read so far, in input order
EndedNames ==
    LET E == SelectSeq(lines, IsEnd)
    IN  [i \in 1..Len(E) |-> endTable[E[i]][3]]

\* the names of the testStarted messages of the output, in output order
StartedNames ==
    LET S == SelectSeq(out, IsStarted)
    IN  [i \in 1..Len(S) |-> S[i].name]

\* the positions of the start, end and summary lines read so far
Boundaries ==
    {i \in 1..Len(lines) :
        runTable[lines[i]] # Nil \/ endTable[lines[i]] # Nil \/ pkgTable[lines[i]] # Nil}

\* the last start, end or summary line read so far is an end line: its record
\* is still to be emitted
PendingEnd ==
    /\ Boundaries # {}
    /\ LET j == CHOOSE j \in Boundaries : \A k \in Boundaries : k <= j
       IN  IsEnd(lines[j])

\* no line before position k names the test n
FirstNaming(n, k) ==
    \A i \in 1..(k - 1) :
        /\ runTable[lines[i]] # <<n>>
        /\ endTable[lines[i]] = Nil \/ endTable[lines[i]][3] # n

\* the start line and the end line of a are before position k, in this order
StartedAndEndedBefore(a, k) ==
    \E i, j \in 1..(k - 1) :
        /\ i < j
        /\ runTable[lines[i]] = <<a>>
        /\ IsEnd(lines[j])
        /\ endTable[lines[j]][3] = a

\* C11: the records that received an end line are emitted in the order of their
\* end lines: while the loop runs the groups of the output are, in order, the
\* end lines read so far, without the last one when no start, end or summary
\* line followed it yet, and when processReader has returned the output begins
\* with the groups of all the end lines, in input order.  In particular, when
\* the start line and the end line of a test a (started and ended once) precede
\* the first line that names a test b, the complete group of a is in the output
\* as soon as that start line of b has been processed, before every message of b.
C11_EndOrder ==
    LET E == EndedNames
        S == StartedNames
        k == Len(E) - (IF pc = "run" /\ PendingEnd THEN 1 ELSE 0)
    IN  /\ Len(S) >= k
        /\ pc = "run" => Len(S) = k
        /\ \A i \in 1..k : S[i] = TestName(E[i])
        /\ \A a, b \in Names :
              (a # b /\ OnceStartedAndEnded(a)) =>
                 \A p \in 1..Len(lines) :
                    (/\ runTable[lines[p]] = <<b>>
                     /\ FirstNaming(b, p)
                     /\ StartedAndEndedBefore(a, p))
                    => \E s \in Started(a) :
                          /\ GroupOK(s)
                          /\ \A i \in 1..Len(out) :
                                (out[i].ev # "text" /\ out[i].name = TestName(b))
                                    => NextMsg(s) < i

\* the start line of TestB was read right after the start and the end line of
\* TestA, and the loop is still running
C11_Witness ==
    /\ pc = "run"
    /\ Len(lines) = 3
    /\ lines[1] = RunLine(TestA)
    /\ IsEnd(lines[2])
    /\ lines[3] = RunLine(TestB)
    /\ StartedNames = <<TestName(TestA)>>
    /\ test = TestB

-----------------------------------------------------------------------------
(* C12 *)

\* the end lines of n read so far
EndsOf(n) == {i \in 1..Len(lines) : IsEnd(lines[i]) /\ endTable[lines[i]][3] = n}

\* the duration in nanoseconds that the duration text d of an end line stands for
DurationOf(d) == IF d = Dur001 THEN 10 * Millisecond ELSE 0

\* the group that starts at s reports the status st of an end line: ignored for
\* SKIP, failed without a message for FAIL, passed for PASS, or, with the race
\* flag set, failed with the race message for FAIL and PASS
ReportsStatus(s, st) ==
    LET j == NextMsg(s)
    IN  \/ st = litSKIP /\ Is(j, "testIgnored", s)
        \/ st = litPASS /\ Is(j, "testFinished", s)
        \/ st = litFAIL /\ Is(j, "testFailed", s) /\ out[j].message = ""
                        /\ Is(j + 1, "testFinished", s)
        \/ st # litSKIP /\ Is(j, "testFailed", s) /\ out[j].message = "Race detected!"
                        /\ Is(j + 1, "testFinished", s)

\* the group that starts at s has the message of a test that never ended
GroupPanic(s) ==
    LET j == NextMsg(s)
    IN  Is(j, "testFailed", s) /\ out[j].message = "Test ended in panic."

\* C12: an end line whose name has no pending record (here: a name that never
\* had a start line) creates the record: right after the line the record is
\* current, was started at that line, has the status and the duration of the
\* line and every pending ancestor of the name is a suite parent.  The record is
\* emitted exactly once: the name has one group per end line, less the one
\* still current while the loop runs, and every group reports the status of an
\* end line of the name with a complete group, never with the message of a
\* test that ended in a panic.
C12_UnmatchedEndLine ==
    \A n \in Names :
        (\A i \in 1..Len(lines) : runTable[lines[i]] # <<n>>) =>
          /\ (pc = "run" /\ lines # <<>> /\ IsEnd(lines[Len(lines)])
                         /\ endTable[lines[Len(lines)]][3] = n) =>
                LET e == endTable[lines[Len(lines)]]
                IN  /\ test = n
                    /\ n \in DOMAIN tests
                    /\ tests[n].Start = Len(lines)
                    /\ tests[n].Status = e[2]
                    /\ tests[n].Duration = DurationOf(e[4])
                    /\ tests[n].Output = <<>>
                    /\ \A a \in DOMAIN tests :
                          HasPrefix(n, a \o <<"/">>) => tests[a].Suite
          /\ Cardinality(Started(n)) =
                Cardinality(EndsOf(n)) - (IF pc = "run" /\ test = n THEN 1 ELSE 0)
          /\ LET S == {endTable[lines[i]][2] : i \in EndsOf(n)}
             IN  \A s \in Started(n) :
                    /\ ~GroupPanic(s)
                    /\ \E st \in S : ReportsStatus(s, st)

\* TestA/Sub never had a start line: its end line was read while TestA was
\* pending, and the summary line after it made the loop emit the record
C12_Witness ==
    /\ pc = "run"
    /\ lines = <<RunLine(TestA), EndLine(Indent4, litFAIL, TestASub, Dur000), SummaryLine>>
    /\ tests[TestA].Suite
    /\ \E s \in Started(TestASub) : ReportsStatus(s, litFAIL)

-----------------------------------------------------------------------------
(* C13 *)

\* the line l matches none of the start, end and summary patterns
Plain(l) == runTable[l] = Nil /\ endTable[l] = Nil /\ pkgTable[l] = Nil

\* the position of the last start or end line before position k, 0 if none
LastTestLine(k) ==
    LET J == {j \in 1..(k - 1) : runTable[lines[j]] # Nil \/ IsEnd(lines[j])} \cup {0}
    IN  CHOOSE j \in J : \A i \in J : i <= j

\* by the input alone: a current record exists when the plain line at k is
\* read.  A start or end line came before, and if the last of them is an end
\* line, no summary line after it has finalized its record.
CurrentAt(k) ==
    LET j == LastTestLine(k)
    IN  /\ j > 0
        /\ ~(IsEnd(lines[j]) /\ \E m \in (j + 1)..(k - 1) : IsSummary(lines[m]))

\* the line at position k is plain and is read with no current record
PassedAt(k) == Plain(lines[k]) /\ ~CurrentAt(k)

\* the position of the last message before position i that is not raw text
PrevMsg(i) ==
    LET J == {j \in 1..(i - 1) : out[j].ev # "text"} \cup {0}
    IN  CHOOSE j \in J : \A k \in J : k <= j

\* the write at position i is raw text outside of every test event group that
\* no summary pattern matches
LooseText(i) ==
    /\ out[i].ev = "text"
    /\ pkgTable[out[i].text] = Nil
    /\ PrevMsg(i) = 0 \/ out[PrevMsg(i)].ev # "testStarted"

\* the raw text outside of groups, in output order, and the plain lines read
\* with no current record, in input order
LooseTexts ==
    LET P == SelectSeq([i \in 1..Len(out) |-> i], LooseText)
    IN  [i \in 1..Len(P) |-> out[P[i]].text]

PassedLines ==
    LET P == SelectSeq([k \in 1..Len(lines) |-> k], PassedAt)
    IN  [i \in 1..Len(P) |-> lines[P[i]]]

\* C13: a line that matches none of the start, end and summary patterns and is
\* read with no current record is written at once and unchanged: right after
\* the line the output ends with it and there is still no current record; and
\* in every state the raw text of the output outside of the groups is exactly
\* the sequence of these lines, each once, in input order.
C13_Passthrough ==
    /\ (pc = "run" /\ lines # <<>> /\ PassedAt(Len(lines))) =>
          /\ test = Nil
          /\ out # <<>>
          /\ out[Len(out)].ev = "text"
          /\ out[Len(out)].text = lines[Len(lines)]
    /\ LooseTexts = PassedLines

\* a plain line was read first and passed through, an end line created a
\* record that a summary line finalized, and the race warning read after it,
\* with no current record again, was passed through as well
C13_Witness ==
    /\ pc = "run"
    /\ Len(lines) = 4
    /\ lines[1] = OtherLine
    /\ IsEnd(lines[2])
    /\ IsSummary(lines[3])
    /\ lines[4] = RaceLine
    /\ LooseTexts = <<OtherLine, RaceLine>>

-----------------------------------------------------------------------------
(* C14 *)

IsFinished(m) == m.ev = "testFinished"

\* the duration texts of the end lines read so far, in input order
EndedDurations ==
    LET E == SelectSeq(lines, IsEnd)
    IN  [i \in 1..Len(E) |-> endTable[E[i]][4]]

\* the duration attributes of the testFinished messages, in output order
FinishedDurations ==
    LET F == SelectSeq(out, IsFinished)
    IN  [i \in 1..Len(F) |-> F[i].duration]

\* the milliseconds a duration text stands for; 0 for a text that is no duration
MillisOf(d) ==
    IF d = Dur1500 THEN 1500
    ELSE IF d = DurNeg THEN 0 - 10
    ELSE IF d = Dur001 THEN 10
    ELSE 0

\* the writes w extend the output: nothing written before is changed
Extends(w) == Len(w) >= Len(out) /\ SubSeq(w, 1, Len(out)) = out

\* C14: no input makes processReader stop early.  While the loop runs, the
\* finalizing block is defined for every line that can come next and the
\* statements after the loop are defined for every order of the map, and both
\* only add to the output; once processReader has returned no step is enabled.
\* An end line whose duration text is no duration gives its record the
\* duration zero (a well-formed one its value) and is handled like any other
\* end line: the testFinished messages carry, in order, the durations of the
\* end lines in milliseconds.
C14_NoAbort ==
    LET D == EndedDurations
        F == FinishedDurations
        k == Len(D) - (IF pc = "run" /\ PendingEnd THEN 1 ELSE 0)
    IN  /\ pc \in {"run", "done"}
        /\ pc = "done" => ~ENABLED NextDur
        /\ pc = "run" =>
              /\ \A l \in DurLines : Extends(Finalize(l, Len(lines) + 1).out)
              /\ LET O == Orders(IF test # Nil THEN Delete(tests, test) ELSE tests)
                 IN  O # {} /\ \A ord \in O : Extends(Break(Nil, ord).out)
        /\ (pc = "run" /\ lines # <<>> /\ IsEnd(lines[Len(lines)])) =>
              /\ test # Nil
              /\ tests[test].Status = endTable[lines[Len(lines)]][2]
              /\ tests[test].Duration = MillisOf(D[Len(D)]) * Millisecond
        /\ Len(F) >= k
        /\ \A i \in 1..k : F[i] = MillisOf(D[i])

\* an end line without a unit in its duration text, then a well-formed one:
\* both records were emitted, the first with the duration zero
C14_Witness ==
    /\ pc = "done"
    /\ lines = <<EndLine(<<>>, litPASS, TestA, DurBare), EndLine(<<>>, litPASS, TestA, Dur1500)>>
    /\ FinishedDurations = <<0, 1500>>
    /\ \A s \in Started(TestA) : GroupPassed(s)

-----------------------------------------------------------------------------
(* C15 *)

\* the reading of an escaped string: a vertical bar and the character after it
\* stand for one character, every other character for itself
RECURSIVE unescape(_)
unescape(s) ==
    IF s = <<>> THEN <<>>
    ELSE IF s[1] = "|" /\ Len(s) >= 2
         THEN <<IF s[2] = "n" THEN "\n" ELSE s[2]>> \o unescape(SubSeq(s, 3, Len(s)))
         ELSE <<s[1]>> \o unescape(Tail(s))

\* the characters that escape replaces by two
Special == {"|", "\n", "'", "[", "]"}

\* C15: for every string over the vertical bar, the newline, the apostrophe,
\* the brackets and ordinary characters, reading the escaped string back gives
\* the string: escape loses nothing, so two strings with the same escaped form
\* are equal.  Every replaced character becomes two characters and no more: a
\* vertical bar that a replacement wrote is not escaped again.
C15_EscapeRoundTrip ==
    pc = "escaped" =>
        /\ unescape(out[1].name) = test
        /\ Len(out[1].name) = Len(test) + Cardinality({i \in 1..Len(test) : test[i] \in Special})

\* a string with a vertical bar before the letter n, and a newline, was escaped
C15_Witness ==
    /\ pc = "escaped"
    /\ test = <<"|", "n", "\n">>
    /\ out[1].name = <<"|", "|", "n", "|", "n">>

-----------------------------------------------------------------------------
(* C16 *)

\* the indentation of the last end line of the name n read so far
OwnIndent(n) ==
    LET j == CHOOSE j \in EndsOf(n) : \A k \in EndsOf(n) : k <= j
    IN  endTable[lines[j]][1]

\* the line l without its newline is a detail line of the current record: the
\* record has a status and the line starts with the indentation of the
\* record's own end line and a tab
DetailOfCurrent(l) ==
    /\ tests[test].Status # Nil
    /\ HasPrefix(SubSeq(l, 1, Len(l) - 1), OwnIndent(test) \o <<"\t">>)

\* the step reads the line l, which is no start, end, summary or race line,
\* while a current record exists
ReadsPlainWithCurrent(l) ==
    /\ pc = "run"
    /\ lines' = Append(lines, l)
    /\ Plain(l)
    /\ ~race(l)
    /\ test # Nil

\* C16: a line that is no start, end, summary or race line and is read while a
\* current record exists goes to exactly one buffer of that record and not to
\* the output.  It is appended to the detail lines, without its newline and
\* without the prefix, exactly when the record has a status and the line starts
\* with the indentation of the record's own end line followed by a tab;
\* otherwise the line as read is appended to the captured output.  Nothing
\* else changes.
C16_DetailOrOutput ==
    [][\A l \in Lines :
          ReadsPlainWithCurrent(l) =>
             /\ out' = out
             /\ test' = test
             /\ suites' = suites
             /\ IF DetailOfCurrent(l)
                THEN LET p == OwnIndent(test) \o <<"\t">>
                     IN  tests' = [tests EXCEPT ![test].Details =
                                      Append(@, SubSeq(l, Len(p) + 1, Len(l) - 1))]
                ELSE tests' = [tests EXCEPT ![test].Output = Append(@, l)]]_vars

\* the detail line read after the indented end line of TestA/Sub went to that
\* record's captured output (it lacks the indentation), the one read after the
\* end line of TestA to the detail lines of TestA, without the tab
C16_Witness ==
    /\ pc = "run"
    /\ lines = <<EndLine(Indent4, litFAIL, TestASub, Dur000), DetailLine,
                 EndLine(<<>>, litPASS, TestA, Dur001), DetailLine>>
    /\ test = TestA
    /\ tests[TestA].Details = <<<<"[", "x", "]">>>>
    /\ tests[TestA].Output = <<>>
    /\ \E i \in 1..Len(out) : out[i].ev = "text" /\ out[i].text = DetailLine

-----------------------------------------------------------------------------
(* C17 *)

\* the number of messages with the tag ev and the name nm before position i
CountBefore(i, ev, nm) ==
    Cardinality({j \in 1..(i - 1) : out[j].ev = ev /\ out[j].name = nm})

\* the suite s is open at position i of the output
OpenAt(i, s) ==
    CountBefore(i, "testSuiteStarted", escape(s)) > CountBefore(i, "testSuiteFinished", escape(s))

\* C17 as stated: while the loop runs (every group in the output was emitted
\* by a start, end or summary line), every group emitted while a suite s is
\* open belongs to the suite itself or to a name below it: the name is s or
\* begins with s and a slash.
C17_HierarchicalContainment ==
    pc = "run" =>
        \A i \in Tagged("testStarted") :
            \A s \in {TestA, TestASub, TestAB} :
                OpenAt(i, s) =>
                    \/ out[i].name = TestName(s)
                    \/ HasPrefix(out[i].name, TestName(s \o <<"/">>))

-----------------------------------------------------------------------------
(* C18 *)

\* the position of the last testStarted message of the name n
LastStartedOf(n) == CHOOSE s \in Started(n) : \A k \in Started(n) : k <= s

\* C18: while the loop runs, no record of the map other than the current one
\* has a status.  When processReader has returned, the records left in the map
\* are those that the range over the map emitted: none has a status, and the
\* last group of each name reports the test as failed (with the message of a
\* panic or of a race), followed by testFinished, never as passed or ignored.
C18_OneEndedPending ==
    /\ pc = "run" => \A n \in DOMAIN tests : n # test => tests[n].Status = Nil
    /\ pc = "done" =>
          \A n \in DOMAIN tests :
              /\ tests[n].Status = Nil
              /\ Started(n) # {}
              /\ LET s == LastStartedOf(n)
                     j == NextMsg(s)
                 IN  /\ Is(j, "testFailed", s)
                     /\ out[j].message \in {"Test ended in panic.", "Race detected!"}
                     /\ Is(j + 1, "testFinished", s)

\* TestB was started and left behind when TestA was started and ended: the
\* flush emitted TestA as passed and then TestB, the record left in the map
C18_Witness ==
    /\ pc = "done"
    /\ lines = <<RunLine(TestB), RunLine(TestA), EndLine(<<>>, litPASS, TestA, Dur001)>>
    /\ DOMAIN tests = {TestB}
    /\ GroupPanic(LastStartedOf(TestB))
    /\ \E s \in Started(TestA) : GroupPassed(s) /\ s < LastStartedOf(TestB)

-----------------------------------------------------------------------------
(* C19 *)

\* by the input alone: the name of the record that is current when the line at
\* position k is read (after a start or end line, see CurrentAt)
OwnerAt(k) ==
    LET l == lines[LastTestLine(k)]
    IN  IF runTable[l] # Nil THEN runTable[l][1] ELSE endTable[l][3]

\* the prefix of the detail lines when the line at position k is read
PrefixAt(k) == endTable[lines[LastTestLine(k)]][1] \o <<"\t">>

\* by the input alone: the line at position k is appended to the detail lines
\* of the record of n / to the captured output of the record of n
DetailAt(k, n) ==
    /\ Plain(lines[k])
    /\ ~race(lines[k])
    /\ CurrentAt(k)
    /\ OwnerAt(k) = n
    /\ IsEnd(lines[LastTestLine(k)])
    /\ HasPrefix(lines[k], PrefixAt(k))

OutputAt(k, n) ==
    /\ Plain(lines[k])
    /\ ~race(lines[k])
    /\ CurrentAt(k)
    /\ OwnerAt(k) = n
    /\ ~DetailAt(k, n)

\* the detail line at position k as it is kept: without prefix and newline
DetailText(k) == SubSeq(lines[k], Len(PrefixAt(k)) + 1, Len(lines[k]) - 1)

\* the string t occurs in the string s
Contains(s, t) == \E i \in 0..(Len(s) - Len(t)) : SubSeq(s, i + 1, i + Len(t)) = t

\* the raw text of the group that starts at position s
GroupTexts(s) == [i \in 1..(NextMsg(s) - s - 1) |-> out[s + i].text]

\* the lines kept as captured output / as detail lines of n, in input order
CapturedOutput(n) ==
    LET P == SelectSeq([k \in 1..Len(lines) |-> k], LAMBDA k : OutputAt(k, n))
    IN  [i \in 1..Len(P) |-> lines[P[i]]]

CapturedDetails(n) ==
    LET P == SelectSeq([k \in 1..Len(lines) |-> k], LAMBDA k : DetailAt(k, n))
    IN  [i \in 1..Len(P) |-> DetailText(P[i])]

\* the name n has one record: at most one start line and one end line, the
\* start line first
SingleRecord(n) ==
    /\ RunCount(n) <= 1
    /\ EndCount(n) <= 1
    /\ RunCount(n) + EndCount(n) >= 1
    /\ \A i, j \in 1..Len(lines) :
          (runTable[lines[i]] = <<n>> /\ j \in EndsOf(n)) => i < j

-----------------------------------------------------------------------------
(* C20 *)

\* by the output: the fragment left no trace.  It is not raw text of the
\* output, and with a newline it is there only as often as a line that was
\* read is this text; a name has groups only if a line that
\* was read names it; a test that was started and has no end line among the
\* lines read is reported as failed; and the summary lines at the end of the
\* output are those that were read.
FragmentUnseen ==
    pc = "done" =>
        /\ \A i \in 1..Len(out) : out[i].ev = "text" => out[i].text # partial
        /\ Cardinality({i \in 1..Len(out) : out[i].ev = "text" /\ out[i].text = partial \o <<"\n">>})
              <= Cardinality({k \in 1..Len(lines) : lines[k] = partial \o <<"\n">>})
        /\ \A n \in {TestA, TestB} :
              /\ Started(n) # {} => RunCount(n) + EndCount(n) >= 1
              /\ (RunCount(n) >= 1 /\ EndCount(n) = 0) =>
                    \A s \in Started(n) : GroupPanic(s)
        /\ Len(out) >= Len(Summaries)
        /\ SubSeq(out, Len(out) - Len(Summaries) + 1, Len(out)) =
              [i \in 1..Len(Summaries) |-> Text(Summaries[i])]
        /\ Len(lines) <= MaxFragLines + 1

\* the step in which ReadString returns its error is the step of the input
\* that ends after its last newline: the output and the map become what the
\* statements after the loop make of the state, whatever the fragment is, and
\* nothing else changes
FragmentFrame ==
    (pc = "run" /\ pc' = "done") =>
        /\ \E ord \in Orders(IF test # Nil THEN Delete(tests, test) ELSE tests) :
              /\ out' = Flush(ord).out
              /\ tests' = Flush(ord).tests
        /\ UNCHANGED <<lines, suites, test, final, prefix, additionalTestName>>

\* C20: characters after the last newline of the input are only the end of the
\* input.  They are not classified (a fragment that reads like an end line,
\* a start line, a summary line or a race warning changes no record), they are
\* not written to the output, and the output is that of the input without
\* them.
C20_FragmentIgnored == [](FragmentUnseen) /\ [][FragmentFrame]_vars

\* the input was the start line of TestA and an end line of TestA without its
\* newline: TestA was reported as a test that never ended
C20_Witness ==
    /\ pc = "done"
    /\ lines = <<RunLine(TestA)>>
    /\ partial # Nil
    /\ end(partial) # Nil
    /\ end(partial)[3] = TestA
    /\ GroupPanic(LastStartedOf(TestA))

=============================================================================
